---- MODULE Spec2Model ----
(***************************************************************************)
(* Model of the terminal front end of "listen" (ListenApp in               *)
(* src/src/listen_app/cli.py) together with the AudioRecorder it drives    *)
(* (src/src/listen_app/recorder.py).                                       *)
(*                                                                         *)
(* Threads: the key-event thread of the keyboard listener (one event at a  *)
(* time), the audio callback of the input stream, and the daemon worker    *)
(* threads started by the key handlers.  Each thread advances one          *)
(* shared-memory step at a time; the recorder lock is modelled explicitly. *)
(*                                                                         *)
(* Specifications:                                                         *)
(*   Spec       the terminal front end, no step failing                    *)
(*   SpecFault  Spec plus failures of open, stop and the clipboard write   *)
(*   SpecRec    the AudioRecorder alone, start() and stop() called freely  *)
(*   SpecObs    SpecRec plus a failing per-frame observer                  *)
(*   SpecExit   start-up and shutdown of the front ends                    *)
(*   SpecGui    the GUI (ListenGUI in src/src/listen_app/gui.py)           *)
(*   SpecFrontEnds   either front end: Spec or SpecGui                     *)
(*   SpecLock   the terminal front end with the status lock explicit and   *)
(*              the display loop, under fairness                           *)
(*   SpecTranscriber   the construction of a Transcriber, both modules     *)
(***************************************************************************)
EXTENDS Integers, Sequences, FiniteSets

\* ---------------------------------------------------------------- bounds
MaxWorkers == 2          \* worker threads alive at the same time
MaxRecordings == 2       \* recordings started in one run
MaxFrames == 1           \* frames buffered in one recording

\* ------------------------------------------------------ program constants
CHUNK_SIZE == 1024
CHANNELS == 1
SampleWidth == 2
HeaderSize == 44
MinAudioLen == 1000

FrameBytes == CHUNK_SIZE * CHANNELS * SampleWidth

NoAudioText == "(no audio captured)"

CtrlKeys == {"ctrl_l", "ctrl_r"}
Keys == CtrlKeys \cup {"space", "other"}
Texts == {"", "hello world"}

VARIABLES
  toggle_mode,          \* ListenApp.toggle_mode
  auto_copy,            \* ListenApp.auto_copy
  recording,            \* ListenApp._recording
  processing,           \* ListenApp._processing
  last_transcription,   \* ListenApp._last_transcription
  ctrl_pressed,         \* ListenApp._ctrl_pressed
  space_pressed,        \* ListenApp._space_pressed
  kpc,                  \* position of the thread that calls recorder.start():
                        \* the key-event thread (terminal), the main thread
                        \* (GUI)
  is_recording,         \* AudioRecorder._is_recording
  stream,               \* AudioRecorder._stream: "none", "open" (active) or
                        \* "inactive" (set, but delivering no frames)
  frames,               \* AudioRecorder._frames
  lock,                 \* AudioRecorder._lock: 0 free, -1 key thread, w worker
  workers,              \* the worker threads, by slot
  clipboard,            \* texts handed to pyperclip.copy, in order
  nrec,                 \* history: number of recordings started
  calls,                \* history: transcribe calls per recording
  status_log,           \* history: statuses passed to on_status_change
  delivered,            \* history: frames the device delivered between the
                        \* start() and the stop() of the current recording
  script,               \* history: how far the run so far follows the
                        \* scenario press Ctrl, press Space, release Space,
                        \* transcribe returns "hello world"
  run_pc,               \* position of the front end's run(): "cli_loading",
                        \* "cli_live", "gui_live" or "exited"
  terminated,           \* AudioRecorder.terminate() has been called
  open_streams,         \* history: input streams opened and not yet closed
  idle_q,               \* GLib.idle_add: completion texts queued for the
                        \* main thread of the GUI
  result_label,         \* ListenGUI.result_label: its text, without the
                        \* quotation marks, and whether it is quoted
  status_lock,          \* ListenApp._status_lock: 0 free, else the holder
  dpc,                  \* position of the display loop of ListenApp.run:
                        \* "wait" (outside the status lock) or "render"
  tr                    \* the Transcriber being constructed: the module it
                        \* comes from, the arguments, whether a CUDA device
                        \* is present, and the fields set so far

vars == <<toggle_mode, auto_copy, recording, processing, last_transcription,
          ctrl_pressed, space_pressed, kpc, is_recording, stream, frames,
          lock, workers, clipboard, nrec, calls, status_log, delivered,
          script, run_pc, terminated, open_streams, idle_q, result_label,
          status_lock, dpc, tr>>

appVars == <<recording, processing, last_transcription>>
keyVars == <<ctrl_pressed, space_pressed>>
recVars == <<is_recording, stream, frames, lock>>
cfgVars == <<toggle_mode, auto_copy>>
histVars == <<status_log, delivered, script>>
lifeVars == <<run_pc, terminated>>
guiVars == <<idle_q, result_label>>
lockVars == <<status_lock, dpc>>
\* state of the parts a specification may leave out: the GUI, the status
\* lock with the display loop, and the construction of the Transcriber
auxVars == <<guiVars, lockVars, tr>>

WorkerIds == 1..MaxWorkers
Free == 0
KeyThread == -1

\* self._transcriber = None
NoTranscriber == [pc |-> "none"]

\* ------------------------------------------------------------ audio bytes
\* A bytes value is kept as its header length and the frames of its payload.
EmptyBytes == [hdr |-> 0, data |-> <<>>]

\* variant: the frames are joined without a container header
FramesToWav_NoHeader(fs) == [hdr |-> 0, data |-> fs]

\* AudioRecorder._frames_to_wav
FramesToWav(fs) == [hdr |-> HeaderSize, data |-> fs]

ByteLen(b) == b.hdr + FrameBytes * Len(b.data)

\* variant: the length check only rejects the empty payload
LongEnough_NonEmpty(b) == ByteLen(b) > 0

\* cli.py line 130: the worker transcribes iff len(audio_data) > 1000
LongEnough(b) == ByteLen(b) > MinAudioLen

\* ---------------------------------------------------------- worker records
NoWorker == [pc |-> "none", audio |-> EmptyBytes, rec |-> 0, arec |-> 0,
             last0 |-> ""]

NewWorker == [pc |-> "check", audio |-> EmptyBytes, rec |-> nrec, arec |-> 0,
              last0 |-> ""]

Alive(w) == workers[w].pc # "none"

FreeSlots == {w \in WorkerIds : ~Alive(w)}

FirstFree == CHOOSE w \in FreeSlots : \A v \in FreeSlots : w <= v

InFlight == {w \in WorkerIds : workers[w].pc = "transcribing"}

Phase == IF processing THEN "Processing"
         ELSE IF recording THEN "Recording" ELSE "Idle"

\* ------------------------------------------------------------------- Init
\* ListenApp.__init__ and AudioRecorder.__init__
InitApp ==
  /\ recording = FALSE
  /\ processing = FALSE
  /\ last_transcription = ""
  /\ ctrl_pressed = FALSE
  /\ space_pressed = FALSE
  /\ kpc = "idle"
  /\ is_recording = FALSE
  /\ stream = "none"
  /\ frames = <<>>
  /\ lock = Free
  /\ workers = [w \in WorkerIds |-> NoWorker]
  /\ clipboard = <<>>
  /\ nrec = 0
  /\ calls = [r \in 1..MaxRecordings |-> 0]
  /\ status_log = <<>>
  /\ delivered = <<>>
  /\ script = "begin"
  /\ terminated = FALSE
  /\ open_streams = 0
  /\ idle_q = <<>>
  /\ result_label = [text |-> "", quoted |-> FALSE]
  /\ status_lock = Free
  /\ dpc = "wait"
  /\ tr = NoTranscriber

\* the terminal front end with the keyboard listener started
Init ==
  /\ toggle_mode \in BOOLEAN
  /\ auto_copy \in BOOLEAN
  /\ run_pc = "cli_live"
  /\ InitApp

\* ------------------------------------------------------ key-event handlers
\* threading.Thread(target=self._stop_recording_and_transcribe).start()
SpawnWorker ==
  /\ FreeSlots # {}
  /\ workers' = [workers EXCEPT ![FirstFree] = NewWorker]
  /\ kpc' = kpc

\* ListenApp._start_recording: the call of recorder.start() is entered when
\* neither flag is set; the key thread then waits for the recorder lock.
StartRecording ==
  IF ~recording /\ ~processing
  THEN /\ nrec < MaxRecordings
       /\ kpc' = "start"
       /\ workers' = workers
  ELSE /\ kpc' = kpc
       /\ workers' = workers

\* the scenario's next position after a key event or a result of transcribe
ScriptAfter(ev) ==
  IF script = "begin" /\ ev[1] = "press" /\ ev[2] \in CtrlKeys THEN "ctrl"
  ELSE IF script = "ctrl" /\ ev = <<"press", "space">> THEN "both"
  ELSE IF script = "both" /\ ev = <<"release", "space">> THEN "released"
  ELSE IF script = "released" /\ ev = <<"return", "hello world">>
  THEN "returned"
  ELSE "off"

PressedCtrl(k) == IF k \in CtrlKeys THEN TRUE ELSE ctrl_pressed

PressedSpace(k) == IF k \notin CtrlKeys /\ k = "space" THEN TRUE
                   ELSE space_pressed

\* ListenApp._on_key_press
OnKeyPress(k) ==
  /\ kpc = "idle"
  /\ script' = ScriptAfter(<<"press", k>>)
  /\ ctrl_pressed' = PressedCtrl(k)
  /\ space_pressed' = PressedSpace(k)
  /\ IF PressedCtrl(k) /\ PressedSpace(k)
     THEN IF toggle_mode
          THEN IF recording THEN SpawnWorker ELSE StartRecording
          ELSE StartRecording
     ELSE /\ kpc' = kpc
          /\ workers' = workers
  /\ UNCHANGED <<cfgVars, auxVars, open_streams, lifeVars, status_log,
                 delivered, appVars, recVars,
                 clipboard, nrec, calls>>

\* variant: the release handler stops the recording in either mode
OnKeyRelease_AnyMode(k) ==
  /\ kpc = "idle"
  /\ script' = ScriptAfter(<<"release", k>>)
  /\ IF k \in CtrlKeys
     THEN /\ ctrl_pressed' = FALSE
          /\ space_pressed' = space_pressed
          /\ IF recording
             THEN SpawnWorker
             ELSE UNCHANGED <<kpc, workers>>
     ELSE IF k = "space"
     THEN /\ space_pressed' = FALSE
          /\ ctrl_pressed' = ctrl_pressed
          /\ IF recording
             THEN SpawnWorker
             ELSE UNCHANGED <<kpc, workers>>
     ELSE UNCHANGED <<keyVars, kpc, workers>>
  /\ UNCHANGED <<cfgVars, auxVars, open_streams, lifeVars, status_log,
                 delivered, appVars, recVars,
                 clipboard, nrec, calls>>

\* variant: only the release of Ctrl stops the recording
OnKeyRelease_CtrlOnly(k) ==
  /\ kpc = "idle"
  /\ script' = ScriptAfter(<<"release", k>>)
  /\ IF k \in CtrlKeys
     THEN /\ ctrl_pressed' = FALSE
          /\ space_pressed' = space_pressed
          /\ IF ~toggle_mode /\ recording
             THEN SpawnWorker
             ELSE UNCHANGED <<kpc, workers>>
     ELSE IF k = "space"
     THEN /\ space_pressed' = FALSE
          /\ ctrl_pressed' = ctrl_pressed
          /\ UNCHANGED <<kpc, workers>>
     ELSE UNCHANGED <<keyVars, kpc, workers>>
  /\ UNCHANGED <<cfgVars, auxVars, open_streams, lifeVars, status_log,
                 delivered, appVars, recVars,
                 clipboard, nrec, calls>>

\* ListenApp._on_key_release
OnKeyRelease(k) ==
  /\ kpc = "idle"
  /\ script' = ScriptAfter(<<"release", k>>)
  /\ IF k \in CtrlKeys
     THEN /\ ctrl_pressed' = FALSE
          /\ space_pressed' = space_pressed
          /\ IF ~toggle_mode /\ recording
             THEN SpawnWorker
             ELSE UNCHANGED <<kpc, workers>>
     ELSE IF k = "space"
     THEN /\ space_pressed' = FALSE
          /\ ctrl_pressed' = ctrl_pressed
          /\ IF ~toggle_mode /\ recording
             THEN SpawnWorker
             ELSE UNCHANGED <<kpc, workers>>
     ELSE UNCHANGED <<keyVars, kpc, workers>>
  /\ UNCHANGED <<cfgVars, auxVars, open_streams, lifeVars, status_log,
                 delivered, appVars, recVars,
                 clipboard, nrec, calls>>

\* variant: start() does not test whether the recorder is already recording
StartAcquire_NoGuard ==
  /\ kpc = "start"
  /\ lock = Free
  /\ lock' = KeyThread
  /\ frames' = <<>>
  /\ is_recording' = TRUE
  /\ nrec' = nrec + 1
  /\ kpc' = "open"
  /\ stream' = stream
  /\ delivered' = <<>>
  /\ UNCHANGED <<cfgVars, auxVars, open_streams, lifeVars, script, status_log,
                 appVars, keyVars,
                 workers, clipboard, calls>>

\* ------------------------------------------- AudioRecorder.start (key thread)
\* lines 47-52: take the lock; return if already recording, else reset the
\* buffer and mark the recorder as recording.
StartAcquire ==
  /\ kpc = "start"
  /\ lock = Free
  /\ IF is_recording
     THEN /\ kpc' = "idle"
          /\ UNCHANGED <<recVars, nrec, delivered>>
     ELSE /\ lock' = KeyThread
          /\ frames' = <<>>
          /\ is_recording' = TRUE
          /\ nrec' = nrec + 1
          /\ kpc' = "open"
          /\ stream' = stream
          /\ delivered' = <<>>
  /\ UNCHANGED <<cfgVars, auxVars, open_streams, lifeVars, script, status_log,
                 appVars, keyVars,
                 workers,
                 clipboard, calls>>

\* lines 54-63: open and start the stream, notify "recording"
\* (ListenApp._on_recording_status sets _recording), release the lock.
StartOpen ==
  /\ kpc = "open"
  /\ stream' = "open"
  /\ open_streams' = open_streams + 1
  /\ recording' = TRUE
  /\ lock' = Free
  /\ kpc' = "idle"
  /\ status_log' = Append(status_log, "recording")
  /\ UNCHANGED <<cfgVars, auxVars, lifeVars, script, delivered, processing,
                 last_transcription, keyVars, is_recording, frames, workers,
                 clipboard, nrec, calls>>

\* ------------------------------------------- AudioRecorder._audio_callback
\* variant: the callback buffers the frame whether or not the recorder is
\* marked as recording
AudioCallbackN_NoCheck(n) ==
  /\ stream = "open"
  /\ Len(frames) < n
  /\ LET frame == <<nrec, Len(delivered) + 1>> IN
       /\ frames' = Append(frames, frame)
       /\ IF lock \in WorkerIds
          THEN delivered' = delivered
          ELSE delivered' = Append(delivered, frame)
  /\ UNCHANGED <<cfgVars, auxVars, open_streams, lifeVars, script, status_log,
                 appVars, keyVars, kpc,
                 is_recording, stream, lock, workers, clipboard, nrec, calls>>

\* A frame is delivered while the stream is open and at most n frames are
\* buffered; it is buffered iff the recorder is marked as recording.  The
\* delivery counts as made between start() and stop() unless a stop() call
\* already holds the recorder lock.
AudioCallbackN(n) ==
  /\ stream = "open"
  /\ Len(frames) < n
  /\ LET frame == <<nrec, Len(delivered) + 1>> IN
       /\ IF is_recording
          THEN frames' = Append(frames, frame)
          ELSE frames' = frames
       /\ IF lock \in WorkerIds
          THEN delivered' = delivered
          ELSE delivered' = Append(delivered, frame)
  /\ UNCHANGED <<cfgVars, auxVars, open_streams, lifeVars, script, status_log,
                 appVars, keyVars, kpc,
                 is_recording, stream, lock, workers, clipboard, nrec, calls>>

AudioCallback == AudioCallbackN(MaxFrames)

\* --------------------------- ListenApp._stop_recording_and_transcribe (worker)
\* line 123: if self._recording
WCheck(w) ==
  /\ workers[w].pc = "check"
  /\ IF recording
     THEN workers' = [workers EXCEPT ![w].pc = "set_processing"]
     ELSE workers' = [workers EXCEPT ![w] = NoWorker]
  /\ UNCHANGED <<cfgVars, auxVars, open_streams, lifeVars, histVars, appVars,
                 keyVars, kpc, recVars,
                 clipboard, nrec,
                 calls>>

\* lines 124-125
WSetProcessing(w) ==
  /\ workers[w].pc = "set_processing"
  /\ processing' = TRUE
  /\ workers' = [workers EXCEPT ![w].pc = "stop"]
  /\ UNCHANGED <<cfgVars, auxVars, open_streams, lifeVars, histVars,
                 recording, last_transcription,
                 keyVars, kpc,
                 recVars, clipboard, nrec, calls>>

\* variant: stop() does not test whether the recorder is recording
WStopAcquire_NoGuard(w) ==
  /\ workers[w].pc = "stop"
  /\ lock = Free
  /\ is_recording' = FALSE
  /\ lock' = w
  /\ workers' = [workers EXCEPT ![w].pc = "close"]
  /\ UNCHANGED <<stream, frames>>
  /\ UNCHANGED <<cfgVars, auxVars, open_streams, lifeVars, histVars, appVars,
                 keyVars, kpc,
                 clipboard, nrec, calls>>

\* AudioRecorder.stop lines 80-84: take the lock; return b"" if not
\* recording, else clear the recording mark.
WStopAcquire(w) ==
  /\ workers[w].pc = "stop"
  /\ lock = Free
  /\ IF ~is_recording
     THEN /\ workers' = [workers EXCEPT ![w].pc = "stopped",
                                        ![w].audio = EmptyBytes,
                                        ![w].arec = 0]
          /\ UNCHANGED recVars
     ELSE /\ is_recording' = FALSE
          /\ lock' = w
          /\ workers' = [workers EXCEPT ![w].pc = "close"]
          /\ UNCHANGED <<stream, frames>>
  /\ UNCHANGED <<cfgVars, auxVars, open_streams, lifeVars, histVars, appVars,
                 keyVars, kpc,
                 clipboard, nrec, calls>>

\* AudioRecorder.stop lines 86-94: close the stream, notify "stopped",
\* encode the buffer, release the lock.
WStopClose(w) ==
  /\ workers[w].pc = "close"
  /\ stream' = "none"
  /\ open_streams' = IF stream = "none" THEN open_streams
                     ELSE open_streams - 1
  /\ recording' = FALSE
  /\ lock' = Free
  /\ workers' = [workers EXCEPT ![w].pc = "stopped",
                                ![w].audio = FramesToWav(frames),
                                ![w].arec = nrec]
  /\ status_log' = Append(status_log, "stopped")
  /\ UNCHANGED <<cfgVars, auxVars, lifeVars, script, delivered, processing,
                 last_transcription, keyVars, kpc,
                 is_recording, frames, clipboard, nrec, calls>>

\* lines 130-133 / 142-143: the length check; either transcribe is called
\* or the sentinel text is stored.
WBranch(w) ==
  /\ workers[w].pc = "stopped"
  /\ IF LongEnough(workers[w].audio)
     THEN /\ workers' = [workers EXCEPT ![w].pc = "transcribing",
                                        ![w].last0 = last_transcription]
          /\ calls' = IF workers[w].arec \in DOMAIN calls
                      THEN [calls EXCEPT ![workers[w].arec] = @ + 1]
                      ELSE calls
          /\ last_transcription' = last_transcription
     ELSE /\ last_transcription' = NoAudioText
          /\ workers' = [workers EXCEPT ![w].pc = "clear"]
          /\ calls' = calls
  /\ UNCHANGED <<cfgVars, auxVars, open_streams, lifeVars, histVars,
                 recording, processing, keyVars,
                 kpc, recVars,
                 clipboard, nrec>>

\* variant: the result text is stored but never copied to the clipboard
WTranscribeReturn_NoCopy(w, text) ==
  /\ workers[w].pc = "transcribing"
  /\ last_transcription' = text
  /\ clipboard' = clipboard
  /\ workers' = [workers EXCEPT ![w].pc = "clear"]
  /\ script' = ScriptAfter(<<"return", text>>)
  /\ UNCHANGED <<cfgVars, auxVars, open_streams, lifeVars, status_log,
                 delivered, recording,
                 processing, keyVars, kpc, recVars, nrec, calls>>

\* variant: the result text is copied whatever it is and whatever auto_copy is
WTranscribeReturn_AlwaysCopy(w, text) ==
  /\ workers[w].pc = "transcribing"
  /\ last_transcription' = text
  /\ clipboard' = Append(clipboard, text)
  /\ workers' = [workers EXCEPT ![w].pc = "clear"]
  /\ script' = ScriptAfter(<<"return", text>>)
  /\ UNCHANGED <<cfgVars, auxVars, open_streams, lifeVars, status_log,
                 delivered, recording, processing, keyVars, kpc, recVars,
                 nrec, calls>>

\* lines 133-138: transcribe returns result.text
WTranscribeReturn(w, text) ==
  /\ workers[w].pc = "transcribing"
  /\ last_transcription' = text
  /\ clipboard' = IF auto_copy /\ text # "" THEN Append(clipboard, text)
                  ELSE clipboard
  /\ workers' = [workers EXCEPT ![w].pc = "clear"]
  /\ script' = ScriptAfter(<<"return", text>>)
  /\ UNCHANGED <<cfgVars, auxVars, open_streams, lifeVars, status_log,
                 delivered, recording,
                 processing, keyVars, kpc, recVars,
                 nrec, calls>>

\* lines 140-141: transcribe raises, the error is printed
WTranscribeRaise(w) ==
  /\ workers[w].pc = "transcribing"
  /\ workers' = [workers EXCEPT ![w].pc = "failed"]
  /\ script' = ScriptAfter(<<"raise", "">>)
  /\ UNCHANGED <<cfgVars, auxVars, open_streams, lifeVars, status_log,
                 delivered, appVars, keyVars,
                 kpc, recVars, clipboard, nrec,
                 calls>>

\* lines 145-146
WClear(w) ==
  /\ workers[w].pc \in {"clear", "failed"}
  /\ processing' = FALSE
  /\ workers' = [workers EXCEPT ![w] = NoWorker]
  /\ UNCHANGED <<cfgVars, auxVars, open_streams, lifeVars, histVars,
                 recording, last_transcription,
                 keyVars, kpc,
                 recVars, clipboard, nrec, calls>>

\* ------------------------------------------------------------------- Next
KeyPressStep == \E k \in Keys : OnKeyPress(k)
KeyReleaseStep == \E k \in Keys : OnKeyRelease(k)
WorkerStep ==
  \E w \in WorkerIds :
     \/ WCheck(w)
     \/ WSetProcessing(w)
     \/ WStopAcquire(w)
     \/ WStopClose(w)
     \/ WBranch(w)
     \/ \E t \in Texts : WTranscribeReturn(w, t)
     \/ WTranscribeRaise(w)
     \/ WClear(w)

Next ==
  \/ KeyPressStep
  \/ KeyReleaseStep
  \/ StartAcquire
  \/ StartOpen
  \/ AudioCallback
  \/ WorkerStep

Spec == Init /\ [][Next]_vars

\* ================================================================= claims
BothHeld == ctrl_pressed /\ space_pressed

\* a press event that takes both booleans from "not both" to "both"
BeginGesture == /\ KeyPressStep
                /\ ~BothHeld
                /\ BothHeld'

Spawned(w) == ~Alive(w) /\ workers'[w].pc # "none"

\* C1: at most one call of Transcriber.transcribe is in progress at any time.
C1_SingleFlight == Cardinality(InFlight) <= 1

\* C2: recorder.start() is never entered by a key press while a worker of an
\* earlier recording is still inside transcribe; such a press changes neither
\* the key thread's position, the recorder nor the flags.
C2_NoStartWhileTranscribing ==
  [][(KeyPressStep /\ InFlight # {})
       => UNCHANGED <<kpc, recVars, appVars>>]_vars

\* C3: in hold mode a worker is spawned only by a release that happens while
\* Ctrl and Space were both held, and no two live workers belong to the same
\* recording.
C3_OneWorkerPerRecording ==
  [][\A w \in WorkerIds :
       (~toggle_mode /\ Spawned(w))
         => /\ BothHeld
            /\ \A v \in WorkerIds \ {w} :
                 Alive(v) => workers[v].rec # workers'[w].rec]_vars

\* C4: a key press takes the begin action (enters recorder.start() or, in
\* toggle mode, spawns the stop worker) only if Ctrl and Space were not both
\* held before the event.
C4_BeginEdgeTriggered ==
  [][(KeyPressStep /\ (kpc' = "start" \/ workers' # workers))
       => ~BothHeld]_vars

\* C5: in toggle mode a begin gesture received while the processing flag is
\* set changes neither the flags nor the recorder and starts no worker.
C5_ThirdGestureNoOp ==
  [][(toggle_mode /\ processing /\ BeginGesture)
       => UNCHANGED <<appVars, recVars, kpc, workers>>]_vars

\* C6: in toggle mode a key-release event changes nothing but the two
\* key-state booleans.
C6_ToggleReleaseOnlyKeys ==
  [][(toggle_mode /\ KeyReleaseStep)
       => UNCHANGED <<appVars, recVars, kpc, workers, clipboard, nrec,
                      calls>>]_vars

\* a release was handled in toggle mode while the recorder was capturing,
\* and the recording goes on with no worker started
C6_Witness ==
  /\ toggle_mode
  /\ recording /\ is_recording /\ stream = "open"
  /\ ~space_pressed /\ ctrl_pressed
  /\ kpc = "idle"
  /\ FreeSlots = WorkerIds

\* C7: a press or release of a key other than Ctrl and Space changes
\* nothing: not the key-state booleans, the flags, the recorder, the key
\* thread's position nor the set of workers.
C7_OtherKeyIgnored ==
  [][(OnKeyPress("other") \/ OnKeyRelease("other"))
       => UNCHANGED <<keyVars, appVars, recVars, kpc, workers>>]_vars

\* a worker of recording r that has not yet gone through recorder.stop()
PendingStop(r) ==
  \E w \in WorkerIds : /\ workers[w].rec = r
                       /\ workers[w].pc \in {"check", "set_processing", "stop"}

\* C8: in hold mode, whenever the recorder is capturing and no stop worker is
\* pending for the current recording, Ctrl and Space are both held.
C8_CapturingOnlyWhileHeld ==
  (~toggle_mode /\ is_recording /\ ~PendingStop(nrec)) => BothHeld

\* the second recording of a hold-mode run is capturing frames with the
\* combination held and no worker pending for it
C8_Witness ==
  /\ ~toggle_mode
  /\ nrec = 2
  /\ is_recording /\ stream = "open" /\ frames # <<>>
  /\ ~PendingStop(nrec)
  /\ BothHeld

\* C9: when recorder.stop() has returned to a worker, audio under the
\* minimum length makes the worker store the sentinel text without calling
\* transcribe; otherwise the worker calls transcribe, and that is the only
\* call for the recording the audio belongs to.
C9_ShortAudioShortCircuit ==
  [][\A w \in WorkerIds :
       (workers[w].pc = "stopped" /\ workers'[w].pc # "stopped")
         => IF ByteLen(workers[w].audio) < MinAudioLen
            THEN /\ workers'[w].pc = "clear"
                 /\ last_transcription' = NoAudioText
                 /\ calls' = calls
            ELSE /\ workers'[w].pc = "transcribing"
                 /\ calls'[workers[w].arec] = 1]_vars

\* the first recording was transcribed once; the second was stopped with a
\* header-only container and its worker has stored the sentinel
C9_Witness ==
  /\ nrec = 2
  /\ calls[1] = 1
  /\ calls[2] = 0
  /\ last_transcription = NoAudioText
  /\ \E w \in WorkerIds : /\ workers[w].pc = "clear"
                          /\ workers[w].arec = 2
                          /\ workers[w].audio = FramesToWav(<<>>)

\* C10: when the worker whose transcribe call raised finishes, the phase is
\* Idle and the last transcription text is what it was when transcribe was
\* called.
C10_FailureRecovery ==
  [][\A w \in WorkerIds :
       (workers[w].pc = "failed" /\ workers'[w].pc = "none")
         => /\ Phase' = "Idle"
            /\ last_transcription' = workers[w].last0]_vars

\* ============================================================ failure steps
\* AudioRecorder.start line 54: self._audio.open raises.  The lock is released
\* by the with statement; lines 51-52 have already run and nothing undoes
\* them; the notification of line 63 is not reached.  The exception leaves
\* _on_key_press (only AttributeError is caught there); the listener either
\* goes on delivering events or stops.
StartOpenFail ==
  /\ kpc = "open"
  /\ lock' = Free
  /\ kpc' \in {"idle", "dead"}
  /\ UNCHANGED <<cfgVars, auxVars, open_streams, lifeVars, histVars, appVars,
                 keyVars, is_recording,
                 stream, frames, workers, clipboard, nrec, calls>>

\* AudioRecorder.stop lines 86-88: stop_stream or close raises.  The lock is
\* released by the with statement, the notification of line 91 is not
\* reached, and the call of line 128 of cli.py is outside the try block, so
\* the exception ends the worker thread.  _stream keeps referring to the
\* stream, which is no longer active ("inactive"): whatever it might still
\* deliver is dropped by the callback, _is_recording being false.
WStopRaise(w) ==
  /\ workers[w].pc = "close"
  /\ lock' = Free
  /\ stream' = "inactive"
  /\ workers' = [workers EXCEPT ![w] = NoWorker]
  /\ UNCHANGED <<cfgVars, auxVars, open_streams, lifeVars, histVars, appVars,
                 keyVars, kpc,
                 is_recording, frames, clipboard, nrec, calls>>

\* cli.py lines 133-141: transcribe returns, the text is stored, and
\* pyperclip.copy raises; the except clause prints the error.
WCopyRaise(w, text) ==
  /\ workers[w].pc = "transcribing"
  /\ auto_copy /\ text # ""
  /\ last_transcription' = text
  /\ workers' = [workers EXCEPT ![w].pc = "clear"]
  /\ script' = ScriptAfter(<<"raise", text>>)
  /\ UNCHANGED <<cfgVars, auxVars, open_streams, lifeVars, status_log,
                 delivered, recording,
                 processing, keyVars,
                 kpc, recVars, clipboard, nrec, calls>>

FaultStep ==
  \/ StartOpenFail
  \/ \E w \in WorkerIds : WStopRaise(w)
  \/ \E w \in WorkerIds : \E t \in Texts : WCopyRaise(w, t)

NextFault == Next \/ FaultStep

SpecFault == Init /\ [][NextFault]_vars

\* pcs of a worker that has set the processing flag and not yet cleared it
AfterSetPcs == {"stop", "close", "stopped", "transcribing", "clear", "failed"}

\* C11: a worker that has set the processing flag ends only by clearing it,
\* whichever of its steps fails.
C11_WorkerAlwaysClears ==
  [][\A w \in WorkerIds :
       (workers[w].pc \in AfterSetPcs /\ workers'[w].pc = "none")
         => ~processing']_vars

\* C13: when opening the stream fails, the phase is Idle and the recorder is
\* not marked as recording, and every later start() call of the controller
\* goes on to open the stream.
C13_OpenFailureRetry ==
  [][/\ StartOpenFail => (Phase' = "Idle" /\ ~is_recording')
     /\ StartAcquire => kpc' = "open"]_vars

\* the run so far is exactly the scenario, in hold mode with auto-copy on,
\* and the worker of its recording has finished
ScenarioDone == /\ ~toggle_mode
                /\ auto_copy
                /\ script = "returned"
                /\ FreeSlots = WorkerIds

\* C12: hold mode, auto-copy on: after press Ctrl, press Space, release
\* Space and transcribe returning "hello world", recorder.stop() and
\* transcribe have each been called once, the phase is Idle, the last
\* transcription is "hello world" and the clipboard was written exactly
\* once, with "hello world".
C12_HoldScenario ==
  ScenarioDone
    => /\ Phase = "Idle"
       /\ last_transcription = "hello world"
       /\ clipboard = <<"hello world">>
       /\ status_log = <<"recording", "stopped">>
       /\ calls[1] = 1

C12_Witness == ScenarioDone /\ nrec = 1 /\ ~space_pressed /\ ctrl_pressed

\* ========================================================= recorder harness
\* The AudioRecorder driven directly, as by test_recorder.py: start() is
\* called from one thread and stop() from worker threads, at any time and in
\* any order, while the stream delivers frames.
MaxRecFrames == 2

\* a thread calls recorder.start()
RecCallStart ==
  /\ kpc = "idle"
  /\ nrec < MaxRecordings
  /\ kpc' = "start"
  /\ UNCHANGED <<cfgVars, auxVars, open_streams, lifeVars, histVars, appVars,
                 keyVars, recVars,
                 workers, clipboard, nrec, calls>>

\* a thread calls recorder.stop()
RecCallStop ==
  /\ FreeSlots # {}
  /\ workers' = [workers EXCEPT ![FirstFree] = [NewWorker EXCEPT !.pc = "stop"]]
  /\ UNCHANGED <<cfgVars, auxVars, open_streams, lifeVars, histVars, appVars,
                 keyVars, kpc, recVars,
                 clipboard, nrec, calls>>

\* the caller of stop() drops the returned bytes and ends
RecStopReturn(w) ==
  /\ workers[w].pc = "stopped"
  /\ workers' = [workers EXCEPT ![w] = NoWorker]
  /\ UNCHANGED <<cfgVars, auxVars, open_streams, lifeVars, histVars, appVars,
                 keyVars, kpc, recVars,
                 clipboard, nrec, calls>>

RecAudioCallback == AudioCallbackN(MaxRecFrames)

RecStopStep ==
  \E w \in WorkerIds :
     \/ WStopAcquire(w)
     \/ WStopClose(w)
     \/ RecStopReturn(w)

NextRec ==
  \/ RecCallStart
  \/ StartAcquire
  \/ StartOpen
  \/ RecAudioCallback
  \/ RecCallStop
  \/ RecStopStep

SpecRec == Init /\ [][NextRec]_vars

\* worker w receives the container from stop() in this step
StopReturnsWav(w) == workers[w].pc = "close" /\ workers'[w].pc = "stopped"

\* C14: stop() called while the recorder is not recording returns the empty
\* payload and changes neither the recorder nor the status, and no two stop()
\* calls return the buffer of the same recording.
C14_StopWhenIdle ==
  [][/\ \A w \in WorkerIds :
          (workers[w].pc = "stop" /\ workers'[w].pc # "stop" /\ ~is_recording)
            => /\ workers'[w].pc = "stopped"
               /\ workers'[w].audio = EmptyBytes
               /\ UNCHANGED <<recVars, status_log, recording>>
     /\ \A w, v \in WorkerIds :
          (w # v /\ workers'[w].arec = workers'[v].arec)
            => workers'[w].arec = 0]_vars

\* one stop() has returned the frames of the first recording and a second
\* stop() after it has returned the empty payload
C14_Witness ==
  \E w, v \in WorkerIds :
     /\ workers[w].pc = "stopped" /\ workers[w].arec = 1
     /\ workers[w].audio.data # <<>>
     /\ workers[v].pc = "stopped" /\ workers[v].audio = EmptyBytes
     /\ ~is_recording /\ nrec = 1

\* C15: start() called while the recorder is recording returns without
\* opening a stream, resetting the buffer or notifying a status.
C15_StartWhenRecording ==
  [][(StartAcquire /\ is_recording)
       => /\ kpc' = "idle"
          /\ UNCHANGED <<recVars, status_log, recording, nrec>>]_vars

\* start() has been called while the first recording is capturing with a
\* frame buffered
C15_Witness ==
  /\ kpc = "start" /\ lock = Free
  /\ is_recording /\ stream = "open" /\ frames # <<>>
  /\ status_log = <<"recording">>

\* C16: the container stop() returns after N frames were delivered has
\* length 44 + N * 2048 bytes; with no frame it is the 44-byte header, not the
\* empty payload.
C16_ContainerLength ==
  [][\A w \in WorkerIds :
       StopReturnsWav(w)
         => /\ ByteLen(workers'[w].audio)
                 = HeaderSize + Len(delivered) * FrameBytes
            /\ workers'[w].audio # EmptyBytes]_vars

\* one stop() returned a header-only container (44 bytes), another a
\* container with two frames (4140 bytes)
C16_Witness ==
  \E w, v \in WorkerIds :
     /\ workers[w].pc = "stopped" /\ workers[w].arec # 0
     /\ ByteLen(workers[w].audio) = 44
     /\ workers[v].pc = "stopped" /\ workers[v].arec # 0
     /\ ByteLen(workers[v].audio) = 4140

\* C17: the container stop() returns holds exactly the frames delivered
\* between the matching start() and that stop(), in delivery order, all of
\* them frames of the current recording.
C17_ExactFrames ==
  [][\A w \in WorkerIds :
       StopReturnsWav(w)
         => /\ workers'[w].audio.data = delivered
            /\ \A i \in 1..Len(workers'[w].audio.data) :
                 workers'[w].audio.data[i] = <<nrec, i>>]_vars

\* both recordings buffered frames; the container of the second holds its
\* two frames in order
C17_Witness ==
  \E w, v \in WorkerIds :
     /\ workers[w].pc = "stopped" /\ workers[w].arec = 1
     /\ workers[w].audio.data # <<>>
     /\ workers[v].pc = "stopped" /\ workers[v].arec = 2
     /\ workers[v].audio.data = <<<<2, 1>>, <<2, 2>>>>

\* C18: the status snapshot (flags and result text) is updated as a whole:
\* whenever the result text changes, the state a locked read can observe
\* next is no longer Processing.
C18_NoTornSnapshot ==
  [][last_transcription' # last_transcription => ~processing']_vars

\* ===================================================== per-frame observer
\* AudioRecorder._audio_callback lines 67-70 with on_audio_chunk set (as
\* ListenGUI._start_recording sets it) and the observer raising: the frame
\* has been appended at line 68, the return of line 71 is not reached, and
\* the stream, not having been told to continue, stops delivering.
ObserverRaises ==
  /\ stream = "open"
  /\ is_recording
  /\ Len(frames) < MaxRecFrames
  /\ LET frame == <<nrec, Len(delivered) + 1>> IN
       /\ frames' = Append(frames, frame)
       /\ IF lock \in WorkerIds
          THEN delivered' = delivered
          ELSE delivered' = Append(delivered, frame)
  /\ stream' = "inactive"
  /\ UNCHANGED <<cfgVars, auxVars, open_streams, lifeVars, script, status_log,
                 appVars, keyVars, kpc,
                 is_recording, lock, workers, clipboard, nrec, calls>>

NextObs == NextRec \/ ObserverRaises

SpecObs == Init /\ [][NextObs]_vars

\* C19: when the per-frame observer fails, the frame is buffered and the
\* stream goes on delivering frames.
C19_ObserverFailureHarmless ==
  [][ObserverRaises
       => /\ Len(frames') = Len(frames) + 1
          /\ stream' = "open"]_vars

\* ================================================================ shutdown
\* ListenApp.run line 205: the model is loaded, then the listener is started
CliPreloadOk ==
  /\ run_pc = "cli_loading"
  /\ run_pc' = "cli_live"
  /\ UNCHANGED <<cfgVars, auxVars, open_streams, terminated, histVars,
                 appVars, keyVars, kpc,
                 recVars, workers, clipboard, nrec, calls>>

\* ListenApp.run line 205 raises: run() is left before the try statement of
\* line 215, and main (lines 273-275) prints the error and exits.
CliPreloadFail ==
  /\ run_pc = "cli_loading"
  /\ run_pc' = "exited"
  /\ UNCHANGED <<cfgVars, auxVars, open_streams, terminated, histVars,
                 appVars, keyVars, kpc,
                 recVars, workers, clipboard, nrec, calls>>

\* ListenApp.run lines 221-226: KeyboardInterrupt in the display loop; the
\* finally clause stops the listener and calls recorder.terminate(), which
\* closes the stream if one is set (recorder.py lines 125-127).
CliInterrupt ==
  /\ run_pc = "cli_live"
  /\ run_pc' = "exited"
  /\ terminated' = TRUE
  /\ stream' = IF stream = "none" THEN "none" ELSE "inactive"
  /\ open_streams' = IF stream = "none" THEN open_streams
                     ELSE open_streams - 1
  /\ UNCHANGED <<cfgVars, auxVars, histVars, appVars, keyVars, kpc,
                 is_recording,
                 frames, lock, workers, clipboard, nrec, calls>>

\* gui.py lines 288-296: the application's run() returns when the window is
\* closed, and run_app and run_gui return; no code of gui.py calls
\* recorder.terminate().
GuiQuit ==
  /\ run_pc = "gui_live"
  /\ run_pc' = "exited"
  /\ UNCHANGED <<cfgVars, auxVars, open_streams, terminated, histVars,
                 appVars, keyVars, kpc,
                 recVars, workers, clipboard, nrec, calls>>

CliLive == run_pc = "cli_live" /\ Next

InitExit ==
  /\ toggle_mode \in BOOLEAN
  /\ auto_copy \in BOOLEAN
  /\ run_pc \in {"cli_loading", "gui_live"}
  /\ InitApp

NextExit ==
  \/ CliPreloadOk
  \/ CliPreloadFail
  \/ CliLive
  \/ CliInterrupt
  \/ GuiQuit

SpecExit == InitExit /\ [][NextExit]_vars

\* C20: once a front end has shut down, recorder.terminate() has been called.
C20_TerminateOnExit == run_pc = "exited" => terminated

\* ==================================================================== GUI
\* ListenGUI (gui.py).  The handlers below run on the main thread, one at a
\* time; _on_record_clicked is taken to be callable in every state (GTK
\* delivers no click to the button while it is insensitive, which only
\* removes behaviours).
ErrorText == "Error: transcription failed"

\* texts result.text can be before strip()
GuiTexts == Texts \cup {" "}

\* str.strip on the texts of GuiTexts
Strip(t) == IF t = " " THEN "" ELSE t

\* variant: the GUI only skips the empty payload
GuiTooShort_Empty(b) == ByteLen(b) = 0

\* gui.py line 256: len(audio_data) < 1000
GuiTooShort(b) == ByteLen(b) < MinAudioLen

\* gui.py line 279: text and not text.startswith("Error:")
Quoted(t) == t # "" /\ t # ErrorText

\* variant: the handler does not test the processing flag
OnRecordClicked_NoGuard ==
  /\ kpc = "idle"
  /\ IF ~recording
     THEN /\ nrec < MaxRecordings
          /\ recording' = TRUE
          /\ result_label' = [text |-> "", quoted |-> FALSE]
          /\ kpc' = "start"
          /\ UNCHANGED <<processing, workers>>
     ELSE /\ FreeSlots # {}
          /\ recording' = FALSE
          /\ processing' = TRUE
          /\ workers' = [workers EXCEPT
                           ![FirstFree] = [NewWorker EXCEPT !.pc = "stop"]]
          /\ UNCHANGED <<result_label, kpc>>
  /\ UNCHANGED <<cfgVars, lockVars, tr, open_streams, lifeVars, histVars,
                 last_transcription, keyVars, recVars, clipboard, nrec,
                 calls, idle_q>>

\* ListenGUI._on_record_clicked with _start_recording (lines 223-233, up to
\* the call of recorder.start()) and _stop_recording (lines 241-250)
OnRecordClicked ==
  /\ kpc = "idle"
  /\ IF processing
     THEN UNCHANGED <<recording, processing, result_label, kpc, workers>>
     ELSE IF ~recording
     THEN /\ nrec < MaxRecordings
          /\ recording' = TRUE
          /\ result_label' = [text |-> "", quoted |-> FALSE]
          /\ kpc' = "start"
          /\ UNCHANGED <<processing, workers>>
     ELSE /\ FreeSlots # {}
          /\ recording' = FALSE
          /\ processing' = TRUE
          /\ workers' = [workers EXCEPT
                           ![FirstFree] = [NewWorker EXCEPT !.pc = "stop"]]
          /\ UNCHANGED <<result_label, kpc>>
  /\ UNCHANGED <<cfgVars, lockVars, tr, open_streams, lifeVars, histVars,
                 last_transcription, keyVars, recVars, clipboard, nrec,
                 calls, idle_q>>

\* AudioRecorder.start lines 54-63 called by the GUI: the status callback
\* (gui.py lines 207-209) does nothing.
GuiStartOpen ==
  /\ kpc = "open"
  /\ stream' = "open"
  /\ open_streams' = open_streams + 1
  /\ lock' = Free
  /\ kpc' = "idle"
  /\ status_log' = Append(status_log, "recording")
  /\ UNCHANGED <<cfgVars, auxVars, lifeVars, script, delivered, appVars,
                 keyVars, is_recording, frames, workers, clipboard, nrec,
                 calls>>

\* AudioRecorder.stop lines 86-94 called by _transcribe_audio (line 254)
GuiStopClose(w) ==
  /\ workers[w].pc = "close"
  /\ stream' = "none"
  /\ open_streams' = IF stream = "none" THEN open_streams
                     ELSE open_streams - 1
  /\ lock' = Free
  /\ workers' = [workers EXCEPT ![w].pc = "stopped",
                                ![w].audio = FramesToWav(frames),
                                ![w].arec = nrec]
  /\ status_log' = Append(status_log, "stopped")
  /\ UNCHANGED <<cfgVars, auxVars, lifeVars, script, delivered, appVars,
                 keyVars, kpc, is_recording, frames, clipboard, nrec, calls>>

\* _transcribe_audio lines 256-261: the length check; either the sentinel
\* is queued for the main thread and the worker ends, or transcribe is called.
GuiBranch(w) ==
  /\ workers[w].pc = "stopped"
  /\ IF GuiTooShort(workers[w].audio)
     THEN /\ idle_q' = Append(idle_q, NoAudioText)
          /\ workers' = [workers EXCEPT ![w] = NoWorker]
          /\ calls' = calls
     ELSE /\ workers' = [workers EXCEPT ![w].pc = "transcribing"]
          /\ calls' = IF workers[w].arec \in DOMAIN calls
                      THEN [calls EXCEPT ![workers[w].arec] = @ + 1]
                      ELSE calls
          /\ idle_q' = idle_q
  /\ UNCHANGED <<cfgVars, lockVars, tr, result_label, open_streams, lifeVars,
                 histVars, appVars, keyVars, kpc, recVars, clipboard, nrec>>

\* _transcribe_audio lines 261-267: transcribe returns
GuiTranscribeReturn(w, t) ==
  /\ workers[w].pc = "transcribing"
  /\ clipboard' = IF auto_copy /\ Strip(t) # ""
                  THEN Append(clipboard, Strip(t))
                  ELSE clipboard
  /\ idle_q' = Append(idle_q, Strip(t))
  /\ workers' = [workers EXCEPT ![w] = NoWorker]
  /\ UNCHANGED <<cfgVars, lockVars, tr, result_label, open_streams, lifeVars,
                 histVars, appVars, keyVars, kpc, recVars, nrec, calls>>

\* _transcribe_audio lines 268-269: transcribe raises
GuiTranscribeRaise(w) ==
  /\ workers[w].pc = "transcribing"
  /\ idle_q' = Append(idle_q, ErrorText)
  /\ workers' = [workers EXCEPT ![w] = NoWorker]
  /\ UNCHANGED <<cfgVars, lockVars, tr, result_label, open_streams, lifeVars,
                 histVars, appVars, keyVars, kpc, recVars, clipboard, nrec,
                 calls>>

\* ListenGUI._on_transcription_complete, run by the main loop for the oldest
\* queued completion
OnTranscriptionComplete ==
  /\ kpc = "idle"
  /\ idle_q # <<>>
  /\ processing' = FALSE
  /\ result_label' = [text |-> Head(idle_q), quoted |-> Quoted(Head(idle_q))]
  /\ idle_q' = Tail(idle_q)
  /\ UNCHANGED <<cfgVars, lockVars, tr, open_streams, lifeVars, histVars,
                 recording, last_transcription, keyVars, kpc, recVars,
                 workers, clipboard, nrec, calls>>

GuiWorkerStep ==
  \E w \in WorkerIds :
     \/ WStopAcquire(w)
     \/ GuiStopClose(w)
     \/ GuiBranch(w)
     \/ \E t \in GuiTexts : GuiTranscribeReturn(w, t)
     \/ GuiTranscribeRaise(w)

NextGui ==
  \/ OnRecordClicked
  \/ StartAcquire
  \/ GuiStartOpen
  \/ AudioCallback
  \/ GuiWorkerStep
  \/ OnTranscriptionComplete

GuiLive == run_pc = "gui_live" /\ NextGui

\* either front end, started
InitFrontEnds ==
  /\ toggle_mode \in BOOLEAN
  /\ auto_copy \in BOOLEAN
  /\ run_pc \in {"cli_live", "gui_live"}
  /\ InitApp

NextFrontEnds ==
  \/ CliLive
  \/ GuiLive

SpecFrontEnds == InitFrontEnds /\ [][NextFrontEnds]_vars

\* the GUI alone (ListenGUI has no toggle mode)
InitGui ==
  /\ toggle_mode = FALSE
  /\ auto_copy \in BOOLEAN
  /\ run_pc = "gui_live"
  /\ InitApp

SpecGui == InitGui /\ [][NextGui]_vars

\* a step of recorder.stop() that ends a recording, or the call of transcribe
BlockingStep ==
  \/ is_recording /\ ~is_recording'
  \/ stream # "none" /\ stream' = "none"
  \/ calls' # calls

\* worker w takes a step and the thread of the handlers takes none
OnWorker(w) ==
  /\ workers'[w] # workers[w]
  /\ Alive(w)
  /\ \A v \in WorkerIds \ {w} : workers'[v] = workers[v]
  /\ UNCHANGED <<kpc, keyVars, idle_q, result_label>>

\* C21: recorder.stop() and transcribe run only on a worker thread, never on
\* the thread of the key handlers or of the GUI handlers, and the worker that
\* stops or transcribes a recording was spawned for that recording.
C21_BlockingOnlyOnOwnWorker ==
  [][BlockingStep
       => \E w \in WorkerIds :
            /\ OnWorker(w)
            /\ (is_recording /\ ~is_recording') => workers[w].rec = nrec
            /\ calls' # calls => workers[w].rec = workers[w].arec]_vars

\* worker w acts on the bytes stop() returned to it
Decides(w) == workers[w].pc = "stopped" /\ workers'[w].pc # "stopped"

\* C22: on the bytes stop() returns, the terminal worker and the GUI worker
\* decide alike: whichever front end runs, transcribe is called exactly when
\* the terminal test (len > 1000) passes and exactly when the GUI test
\* (len < 1000) fails, and otherwise the sentinel text is produced.
C22_SameShortAudioDecision ==
  [][\A w \in WorkerIds :
       Decides(w)
         => /\ workers'[w].pc = "transcribing" <=> LongEnough(workers[w].audio)
            /\ workers'[w].pc = "transcribing"
                 <=> ~GuiTooShort(workers[w].audio)
            /\ workers'[w].pc # "transcribing"
                 => /\ calls' = calls
                    /\ IF run_pc = "gui_live"
                       THEN idle_q' = Append(idle_q, NoAudioText)
                       ELSE last_transcription' = NoAudioText]_vars

\* the GUI has transcribed its first recording, which held a frame, and
\* shows the sentinel for its second, which held none
C22_Witness ==
  /\ run_pc = "gui_live"
  /\ nrec = 2
  /\ calls[1] = 1
  /\ calls[2] = 0
  /\ result_label = [text |-> NoAudioText, quoted |-> TRUE]

\* C23: in the GUI a click while the processing flag is set changes
\* nothing, recorder.start() is never entered while it is set, and at most
\* one _transcribe_audio worker is alive.
C23_GuiClickGate ==
  [][/\ (OnRecordClicked /\ processing) => UNCHANGED vars
     /\ (kpc = "idle" /\ kpc' = "start") => ~processing
     /\ Cardinality({w \in WorkerIds : workers'[w].pc # "none"}) <= 1]_vars

\* the second recording of a GUI run is being transcribed after the first
\* one was, and the main thread is free to handle a click
C23_Witness ==
  /\ run_pc = "gui_live"
  /\ processing /\ ~recording
  /\ kpc = "idle"
  /\ nrec = 2
  /\ InFlight # {}
  /\ calls[1] = 1
  /\ idle_q = <<>>

\* worker w leaves transcribe with a result in this step
Returns(w) ==
  /\ workers[w].pc = "transcribing"
  /\ workers'[w].pc \in {"clear", "none"}

\* C24: the clipboard is written only when auto-copy is on, by a worker whose
\* transcribe call has just returned, and with that call's text, which is
\* neither empty nor the sentinel nor an error text; a failed or skipped
\* transcription writes nothing.
C24_ClipboardOnlyOnSuccess ==
  [][clipboard' # clipboard
       => /\ auto_copy
          /\ Len(clipboard') = Len(clipboard) + 1
          /\ SubSeq(clipboard', 1, Len(clipboard)) = clipboard
          /\ LET t == clipboard'[Len(clipboard')] IN
               /\ t \notin {"", NoAudioText, ErrorText}
               /\ \E w \in WorkerIds :
                    /\ Returns(w)
                    /\ workers[w].audio # EmptyBytes
                    /\ LongEnough(workers[w].audio)
                    /\ IF run_pc = "gui_live"
                       THEN idle_q' = Append(idle_q, t)
                       ELSE last_transcription' = t]_vars

\* auto-copy on: the first recording's text was copied; the second recording
\* ended with the sentinel and the clipboard was not written again
C24_Witness ==
  /\ auto_copy
  /\ nrec = 2
  /\ clipboard = <<"hello world">>
  /\ calls[2] = 0
  /\ \/ last_transcription = NoAudioText
     \/ result_label.text = NoAudioText

\* ============================================================== the locks
\* The terminal front end with the status lock made explicit: every
\* "with self._status_lock" block is an acquiring step, which waits until the
\* lock is free, and a step that runs the block and releases.  The recorder
\* lock is held across the status callback of start() and stop().
DisplayThread == -2

\* AudioRecorder.start lines 54-62: the stream is opened and started; the key
\* thread, holding the recorder lock, calls the status callback.
LStartOpened ==
  /\ kpc = "open"
  /\ stream' = "open"
  /\ open_streams' = open_streams + 1
  /\ kpc' = "notify"
  /\ UNCHANGED <<cfgVars, auxVars, lifeVars, histVars, appVars, keyVars,
                 is_recording, frames, lock, workers, clipboard, nrec, calls>>

\* cli.py line 82, on the key thread: the status lock is taken
LStartNotifyAcquire ==
  /\ kpc = "notify"
  /\ status_lock = Free
  /\ status_lock' = KeyThread
  /\ kpc' = "notify_held"
  /\ UNCHANGED <<cfgVars, guiVars, dpc, tr, open_streams, lifeVars, histVars,
                 appVars, keyVars, recVars, workers, clipboard, nrec, calls>>

\* cli.py line 83 and the ends of both with blocks
LStartRelease ==
  /\ kpc = "notify_held"
  /\ recording' = TRUE
  /\ status_log' = Append(status_log, "recording")
  /\ status_lock' = Free
  /\ lock' = Free
  /\ kpc' = "idle"
  /\ UNCHANGED <<cfgVars, guiVars, dpc, tr, open_streams, lifeVars, delivered,
                 script, processing, last_transcription, keyVars,
                 is_recording, stream, frames, workers, clipboard, nrec,
                 calls>>

\* cli.py line 124: the worker takes the status lock
LSetProcAcquire(w) ==
  /\ workers[w].pc = "set_processing"
  /\ status_lock = Free
  /\ status_lock' = w
  /\ workers' = [workers EXCEPT ![w].pc = "sp_held"]
  /\ UNCHANGED <<cfgVars, guiVars, dpc, tr, open_streams, lifeVars, histVars,
                 appVars, keyVars, kpc, recVars, clipboard, nrec, calls>>

\* variant: recorder.stop() is called inside the with block of line 124, the
\* status lock still held
LSetProcRelease_Hold(w) ==
  /\ workers[w].pc = "sp_held"
  /\ processing' = TRUE
  /\ status_lock' = status_lock
  /\ workers' = [workers EXCEPT ![w].pc = "stop"]
  /\ UNCHANGED <<cfgVars, guiVars, dpc, tr, open_streams, lifeVars, histVars,
                 recording, last_transcription, keyVars, kpc, recVars,
                 clipboard, nrec, calls>>

\* cli.py line 125 and the end of the with block
LSetProcRelease(w) ==
  /\ workers[w].pc = "sp_held"
  /\ processing' = TRUE
  /\ status_lock' = Free
  /\ workers' = [workers EXCEPT ![w].pc = "stop"]
  /\ UNCHANGED <<cfgVars, guiVars, dpc, tr, open_streams, lifeVars, histVars,
                 recording, last_transcription, keyVars, kpc, recVars,
                 clipboard, nrec, calls>>

\* AudioRecorder.stop lines 86-89: the stream is closed; the worker, holding
\* the recorder lock, calls the status callback.
LStopClosed(w) ==
  /\ workers[w].pc = "close"
  /\ stream' = "none"
  /\ open_streams' = IF stream = "none" THEN open_streams
                     ELSE open_streams - 1
  /\ workers' = [workers EXCEPT ![w].pc = "notify"]
  /\ UNCHANGED <<cfgVars, auxVars, lifeVars, histVars, appVars, keyVars, kpc,
                 is_recording, frames, lock, clipboard, nrec, calls>>

\* cli.py line 82, on the worker: the status lock is taken
LStopNotifyAcquire(w) ==
  /\ workers[w].pc = "notify"
  /\ status_lock = Free
  /\ status_lock' = w
  /\ workers' = [workers EXCEPT ![w].pc = "notify_held"]
  /\ UNCHANGED <<cfgVars, guiVars, dpc, tr, open_streams, lifeVars, histVars,
                 appVars, keyVars, kpc, recVars, clipboard, nrec, calls>>

\* cli.py line 83, recorder.py line 94 and the ends of both with blocks
LStopRelease(w) ==
  /\ workers[w].pc = "notify_held"
  /\ recording' = FALSE
  /\ status_log' = Append(status_log, "stopped")
  /\ status_lock' = Free
  /\ lock' = Free
  /\ workers' = [workers EXCEPT ![w].pc = "stopped",
                                ![w].audio = FramesToWav(frames),
                                ![w].arec = nrec]
  /\ UNCHANGED <<cfgVars, guiVars, dpc, tr, open_streams, lifeVars, delivered,
                 script, processing, last_transcription, keyVars, kpc,
                 is_recording, stream, frames, clipboard, nrec, calls>>

\* cli.py line 145: the worker takes the status lock
LClearAcquire(w) ==
  /\ workers[w].pc \in {"clear", "failed"}
  /\ status_lock = Free
  /\ status_lock' = w
  /\ workers' = [workers EXCEPT ![w].pc = "clear_held"]
  /\ UNCHANGED <<cfgVars, guiVars, dpc, tr, open_streams, lifeVars, histVars,
                 appVars, keyVars, kpc, recVars, clipboard, nrec, calls>>

\* cli.py line 146 and the end of the with block; the worker ends
LClearRelease(w) ==
  /\ workers[w].pc = "clear_held"
  /\ processing' = FALSE
  /\ status_lock' = Free
  /\ workers' = [workers EXCEPT ![w] = NoWorker]
  /\ UNCHANGED <<cfgVars, guiVars, dpc, tr, open_streams, lifeVars, histVars,
                 recording, last_transcription, keyVars, kpc, recVars,
                 clipboard, nrec, calls>>

\* ListenApp._get_display line 87, called by the display loop (line 220)
LDisplayAcquire ==
  /\ dpc = "wait"
  /\ status_lock = Free
  /\ status_lock' = DisplayThread
  /\ dpc' = "render"
  /\ UNCHANGED <<cfgVars, guiVars, tr, open_streams, lifeVars, histVars,
                 appVars, keyVars, kpc, recVars, workers, clipboard, nrec,
                 calls>>

\* ListenApp._get_display lines 88-114: the snapshot is read, the lock freed
LDisplayRelease ==
  /\ dpc = "render"
  /\ status_lock' = Free
  /\ dpc' = "wait"
  /\ UNCHANGED <<cfgVars, guiVars, tr, open_streams, lifeVars, histVars,
                 appVars, keyVars, kpc, recVars, workers, clipboard, nrec,
                 calls>>

\* A key event whose handler calls _start_recording (cli.py lines 158-170),
\* whatever the keys: recorder.start() is entered when neither flag is set.
LCallStart ==
  /\ kpc = "idle"
  /\ ~recording /\ ~processing
  /\ nrec < MaxRecordings
  /\ kpc' = "start"
  /\ UNCHANGED <<cfgVars, auxVars, open_streams, lifeVars, histVars, appVars,
                 keyVars, recVars, workers, clipboard, nrec, calls>>

\* A key event whose handler starts a worker (cli.py lines 161-163 and
\* 181-190), whatever the keys: the handlers do so only while _recording.
LSpawn ==
  /\ kpc = "idle"
  /\ recording
  /\ SpawnWorker
  /\ UNCHANGED <<cfgVars, auxVars, open_streams, lifeVars, histVars, appVars,
                 keyVars, recVars, clipboard, nrec, calls>>

\* the steps of the key thread inside recorder.start()
LKeyStep ==
  \/ StartAcquire
  \/ LStartOpened
  \/ LStartNotifyAcquire
  \/ LStartRelease

\* the steps of worker w.  The audio callback and transcribe take no lock;
\* here the device delivers no frame, so that every recording ends with the
\* header-only container and the worker takes the sentinel branch.
LWorkerStep(w) ==
  \/ WCheck(w)
  \/ LSetProcAcquire(w)
  \/ LSetProcRelease(w)
  \/ WStopAcquire(w)
  \/ LStopClosed(w)
  \/ LStopNotifyAcquire(w)
  \/ LStopRelease(w)
  \/ WBranch(w)
  \/ LClearAcquire(w)
  \/ LClearRelease(w)

\* the steps of the display loop
LDisplayStep ==
  \/ LDisplayAcquire
  \/ LDisplayRelease

NextLock ==
  \/ LCallStart
  \/ LSpawn
  \/ LKeyStep
  \/ \E w \in WorkerIds : LWorkerStep(w)
  \/ LDisplayStep

\* Every thread that is able to take a step again and again takes one: the
\* scheduler runs every runnable thread, and a lock that keeps becoming free
\* is eventually given to each thread waiting for it.  Nothing is assumed
\* about key events.  The key-state booleans play no part in the locking
\* and are left out: LCallStart and LSpawn stand for the key handlers.
FairLock ==
  /\ SF_vars(LKeyStep)
  /\ SF_vars(LDisplayStep)
  /\ \A w \in WorkerIds : SF_vars(LWorkerStep(w))

\* hold mode with auto-copy on: neither option is read by a locking step
InitLock ==
  /\ toggle_mode = FALSE
  /\ auto_copy = TRUE
  /\ run_pc = "cli_live"
  /\ InitApp

SpecLock == InitLock /\ [][NextLock]_vars /\ FairLock

\* positions at which a worker waits for a lock
WaitsStatusPcs == {"set_processing", "notify", "clear", "failed"}
WaitsRecorderPcs == {"stop"}

\* the lock order: whoever waits for the recorder lock holds no lock, and
\* whoever holds the recorder lock while using the status lock got the
\* recorder lock first
LockOrder ==
  /\ kpc = "start" => status_lock # KeyThread /\ lock # KeyThread
  /\ kpc \in {"notify", "notify_held"} => lock = KeyThread
  /\ \A w \in WorkerIds :
       /\ workers[w].pc \in WaitsRecorderPcs
            => status_lock # w /\ lock # w
       /\ workers[w].pc \in {"notify", "notify_held"} => lock = w
       /\ workers[w].pc \in WaitsStatusPcs => status_lock # w
  /\ dpc = "wait" => status_lock # DisplayThread
  /\ status_lock = DisplayThread => lock # DisplayThread

C26_OnePhase == ~(recording /\ processing)

\* C27: the recorder never has more than one input stream open, and
\* whenever no start() or stop() call holds the recorder lock the stream is
\* open exactly when the recorder is marked as recording, whatever start(),
\* stop() and callback steps were taken before.
C27_StreamMatchesFlag ==
  /\ open_streams <= 1
  /\ open_streams = 1 <=> stream # "none"
  /\ lock = Free => (stream = "open" <=> is_recording)

\* ============================================================ Transcriber
\* Transcriber.__init__ of the two transcriber modules: "root" is
\* src/transcriber.py, "package" is src/src/listen_app/transcriber.py.
Modules == {"root", "package"}
ModelSizes == {"tiny", "base", "small", "medium", "large-v3"}
None == "None"
DeviceArgs == {"auto", "cpu", "cuda"}
LoadErrors == {"cuda", "other"}

\* MODEL_RECOMMENDATIONS of each module
MODEL_RECOMMENDATIONS(m) ==
  IF m = "root"
  THEN [d \in {"cpu", "gpu"} |-> IF d = "cpu" THEN "tiny" ELSE "base"]
  ELSE [d \in {"cpu", "cuda"} |-> IF d = "cpu" THEN "tiny" ELSE "base"]

\* MODEL_RECOMMENDATIONS.get(device, "tiny")
Recommended(m, device) ==
  IF device \in DOMAIN MODEL_RECOMMENDATIONS(m)
  THEN MODEL_RECOMMENDATIONS(m)[device]
  ELSE "tiny"

\* Transcriber._detect_device: "cuda" when a CUDA device is found
DetectDevice(cuda) == IF cuda THEN "cuda" ELSE "cpu"

\* everything but the Transcriber
otherVars == <<cfgVars, guiVars, lockVars, open_streams, lifeVars, histVars,
               appVars, keyVars, kpc, recVars, workers, clipboard, nrec,
               calls>>

\* Transcriber(model_size=..., device=..., compute_type=None) is called
TrCall(m, size, device, cuda) ==
  /\ tr.pc = "none"
  /\ tr' = [pc |-> "device", module |-> m, size_arg |-> size, cuda |-> cuda,
            device |-> device, model_size |-> size, compute_type |-> None]
  /\ UNCHANGED otherVars

\* "if device == 'auto': device = self._detect_device()"
TrDevice ==
  /\ tr.pc = "device"
  /\ tr' = [tr EXCEPT !.pc = "model",
                      !.device = IF tr.device = "auto"
                                 THEN DetectDevice(tr.cuda)
                                 ELSE tr.device]
  /\ UNCHANGED otherVars

\* "if model_size is None: model_size = MODEL_RECOMMENDATIONS.get(...)"
TrModel ==
  /\ tr.pc = "model"
  /\ tr' = [tr EXCEPT !.pc = "compute",
                      !.model_size = IF tr.model_size = None
                                     THEN Recommended(tr.module, tr.device)
                                     ELSE tr.model_size]
  /\ UNCHANGED otherVars

\* "if compute_type is None: ..." and the assignment of the three fields
TrCompute ==
  /\ tr.pc = "compute"
  /\ tr' = [tr EXCEPT !.pc = "load",
                      !.compute_type = IF tr.device = "cuda" THEN "float16"
                                       ELSE "int8"]
  /\ UNCHANGED otherVars

\* WhisperModel(...) returns
TrLoadOk ==
  /\ tr.pc \in {"load", "reload"}
  /\ tr' = [tr EXCEPT !.pc = "ready"]
  /\ UNCHANGED otherVars

\* WhisperModel(...) raises.  src/transcriber.py lets the exception out;
\* the package module falls back to the CPU when the message names CUDA
\* (lines 73-87) and loads again; a second failure leaves the constructor.
TrLoadFail(e) ==
  /\ tr.pc \in {"load", "reload"}
  /\ IF tr.module = "package" /\ tr.pc = "load" /\ e = "cuda"
     THEN tr' = [tr EXCEPT !.pc = "reload",
                           !.device = "cpu",
                           !.compute_type = "int8",
                           !.model_size = Recommended(tr.module, "cpu")]
     ELSE tr' = [tr EXCEPT !.pc = "failed"]
  /\ UNCHANGED otherVars

\* the object, or the failed call, is done with
TrDrop ==
  /\ tr.pc \in {"ready", "failed"}
  /\ tr' = NoTranscriber
  /\ UNCHANGED otherVars

InitTranscriber ==
  /\ toggle_mode = FALSE
  /\ auto_copy = TRUE
  /\ run_pc = "cli_loading"
  /\ InitApp

NextTranscriber ==
  \/ \E m \in Modules, size \in ModelSizes \cup {None}, device \in DeviceArgs,
        cuda \in BOOLEAN : TrCall(m, size, device, cuda)
  \/ TrDevice
  \/ TrModel
  \/ TrCompute
  \/ TrLoadOk
  \/ \E e \in LoadErrors : TrLoadFail(e)
  \/ TrDrop

SpecTranscriber == InitTranscriber /\ [][NextTranscriber]_vars

\* C28: a Transcriber constructed without a model size has, once the model
\* is chosen, "tiny" on the cpu device and "base" on the cuda device, in
\* either module.
C28_AutoModel ==
  (tr.pc \in {"compute", "load", "reload", "ready"} /\ tr.size_arg = None)
    => tr.model_size = IF tr.device = "cpu" THEN "tiny" ELSE "base"

====
